---- MODULE Spec2Model ----
(***************************************************************************)
(* XET Composer: the TokenVesting contract template                        *)
(* (contracts/TokenVesting.sol.tera) and the deployment form               *)
(* (frontend/src/app/page.tsx).                                            *)
(*                                                                         *)
(* Spec      the deployed vesting contract on a chain: construction, token *)
(*           deposits, block time, releasable_amount() and release().      *)
(* SpecPage  the form page with overlapping submissions, its requests      *)
(*           settled by whatever the network brings.                       *)
(* SpecPipeline  the form page of one operator with the backend pipeline   *)
(*           of the design (validate, render, compile, deploy) answering.  *)
(***************************************************************************)
EXTENDS Integers, Sequences, FiniteSets, TLC

\* ------------------------------------------------------------------ bounds
\* Block timestamps range over 0..MaxTime.
MaxTime == 5
\* Constructor argument _start_time ranges over 0..MaxStart.
MaxStart == 1
\* Constructor arguments _cliff_duration and _duration range over 0..MaxDuration.
MaxDuration == 3
\* Tokens the funder holds at the beginning (the token's whole supply).
Supply == 3
\* Largest step of block time between two transactions.
MaxStep == 2

\* ------------------------------------------------------- contract: values
\* uint256, scaled down: checked arithmetic reverts (Panic) above MaxUint.
MaxUint == 255
\* The result of an arithmetic operation that reverted.
Panic == -1

\* address(0)
ZeroAddress == "0x0"
\* address(this): the vesting contract's own account in the token's ledger.
This == "vesting"
\* The account deposits come from.
Funder == "funder"
\* Addresses a caller may pass as _token_address, _beneficiary, _initial_owner.
TokenAddresses == {ZeroAddress, "token"}
BeneficiaryAddresses == {ZeroAddress, "alice"}
OwnerAddresses == {ZeroAddress, "owner"}
\* The holders of the token's ledger.
Holders == {This, Funder, "alice", "bob"}

\* The outcomes of an external call to token.transfer: it moves the tokens
\* and returns true, returns false, or reverts.
TokenOutcomes == {"ok", "false", "revert"}

\* The revert strings of the contract.
ErrTokenZero == "TokenVesting: token address cannot be zero"
ErrBeneficiaryZero == "TokenVesting: beneficiary cannot be zero"
ErrDurationZero == "TokenVesting: duration must be > 0"
ErrCliff == "TokenVesting: cliff must be <= duration"
ErrStartTime == "TokenVesting: start time must be >= current time"
ErrNoTokensDue == "TokenVesting: no tokens are due"
ErrTransferFailed == "TokenVesting: token transfer failed"
\* Ownable(_initial_owner) rejects the zero owner.
ErrOwnerZero == "OwnableInvalidOwner"
\* A revert raised by checked arithmetic, and one raised inside the token.
ErrPanic == "Panic"

\* ReentrancyGuard: its two statuses and the error of its modifier.
NOT_ENTERED == "NOT_ENTERED"
ENTERED == "ENTERED"
ErrReentrant == "ReentrancyGuardReentrantCall"
ErrTokenReverted == "token reverted"

VARIABLES
    now,             \* block.timestamp
    deployed,        \* whether the constructor has succeeded
    createdAt,       \* block.timestamp of the successful construction
    token,           \* IERC20 public immutable token
    beneficiary,     \* address public immutable beneficiary
    start_time,      \* uint256 public immutable start_time
    cliff_duration,  \* uint256 public immutable cliff_duration
    duration,        \* uint256 public immutable duration
    owner,           \* Ownable's owner
    released,        \* uint256 public released
    balances,        \* the token's ledger: holder -> balance
    lastCall,        \* the transaction of the last step and how it ended
    _status,         \* ReentrancyGuard's status
    frames,          \* the release() calls waiting in token.transfer, outermost first
    formData,        \* useState<VestingFormData>: the form's fields
    submissionResult,     \* useState<string | null>
    deployedContractInfo, \* useState<any | null>
    submits,         \* submit events handled so far
    fetches,         \* fetch('/api/deploy') calls made so far
    inflight,        \* the deploy requests sent and not yet settled, by number
    lastEvent,       \* what the page's last step was and how it ended
    newest           \* of the responses the network brought, the one to the
                     \* request submitted last

callVars == <<_status, frames>>

contractVars == <<now, deployed, createdAt, token, beneficiary, start_time,
                  cliff_duration, duration, owner, released, balances, lastCall,
                  callVars>>

pageVars == <<formData, submissionResult, deployedContractInfo, submits,
              fetches, inflight, lastEvent, newest>>

vars == <<contractVars, pageVars>>

\* ------------------------------------------------- checked uint arithmetic
\* Solidity ^0.8 arithmetic: a result outside 0..MaxUint reverts.
CheckedAdd(a, b) ==
    IF a = Panic \/ b = Panic THEN Panic
    ELSE IF a + b > MaxUint THEN Panic ELSE a + b

CheckedSub(a, b) ==
    IF a = Panic \/ b = Panic THEN Panic
    ELSE IF a < b THEN Panic ELSE a - b

CheckedMul(a, b) ==
    IF a = Panic \/ b = Panic THEN Panic
    ELSE IF a * b > MaxUint THEN Panic ELSE a * b

CheckedDiv(a, b) ==
    IF a = Panic \/ b = Panic THEN Panic
    ELSE IF b = 0 THEN Panic ELSE a \div b

\* ------------------------------------------------------- contract: reads
\* token.balanceOf(account)
balanceOf(account) == balances[account]

\* total_balance without the tokens already released.
total_balance_held_now == balanceOf(This)

\* uint256 total_balance = token.balanceOf(address(this)) + released
total_balance == CheckedAdd(balanceOf(This), released)

\* _vested_amount with the formula of its own comment: the time since the end
\* of the cliff over the duration left after the cliff.
vested_amount_since_cliff(_timestamp) ==
    LET cliffEnd == CheckedAdd(start_time, cliff_duration)
        vestEnd == CheckedAdd(start_time, duration)
    IN  IF total_balance = Panic \/ cliffEnd = Panic THEN Panic
        ELSE IF _timestamp < cliffEnd THEN 0
        ELSE IF vestEnd = Panic THEN Panic
        ELSE IF _timestamp >= vestEnd THEN total_balance
        ELSE CheckedDiv(CheckedMul(total_balance,
                                   CheckedSub(_timestamp, cliffEnd)),
                        CheckedSub(duration, cliff_duration))

\* _vested_amount dividing the time since start_time by the duration left
\* after the cliff.
vested_amount_over_rest(_timestamp) ==
    LET cliffEnd == CheckedAdd(start_time, cliff_duration)
        vestEnd == CheckedAdd(start_time, duration)
    IN  IF total_balance = Panic \/ cliffEnd = Panic THEN Panic
        ELSE IF _timestamp < cliffEnd THEN 0
        ELSE IF vestEnd = Panic THEN Panic
        ELSE IF _timestamp >= vestEnd THEN total_balance
        ELSE CheckedDiv(CheckedMul(total_balance,
                                   CheckedSub(_timestamp, start_time)),
                        CheckedSub(duration, cliff_duration))

\* _vested_amount without the cliff: linear from start_time onwards.
vested_amount_without_cliff(_timestamp) ==
    LET vestEnd == CheckedAdd(start_time, duration)
    IN  IF total_balance = Panic \/ vestEnd = Panic THEN Panic
        ELSE IF _timestamp >= vestEnd THEN total_balance
        ELSE CheckedDiv(CheckedMul(total_balance,
                                   CheckedSub(_timestamp, start_time)),
                        duration)

\* _vested_amount(_timestamp)
_vested_amount(_timestamp) ==
    LET cliffEnd == CheckedAdd(start_time, cliff_duration)
        vestEnd == CheckedAdd(start_time, duration)
    IN  IF total_balance = Panic \/ cliffEnd = Panic THEN Panic
        ELSE IF _timestamp < cliffEnd THEN 0
        ELSE IF vestEnd = Panic THEN Panic
        ELSE IF _timestamp >= vestEnd THEN total_balance
        ELSE CheckedDiv(CheckedMul(total_balance,
                                   CheckedSub(_timestamp, start_time)),
                        duration)

\* releasable_amount()
releasable_amount == CheckedSub(_vested_amount(now), released)

\* ------------------------------------------------------ contract: writes
NoArgs ==
    [token_address |-> ZeroAddress, beneficiary |-> ZeroAddress, start_time |-> 0,
     cliff_duration |-> 0, duration |-> 0, initial_owner |-> ZeroAddress]

\* What a step records of its transaction: the function called, whether it
\* returned (ok) or reverted (with which error), the value it returned or
\* moved, what token.transfer answered, and the constructor's arguments.
Call(op, ok, error, value, transferred, args) ==
    [op |-> op, ok |-> ok, error |-> error, value |-> value,
     transfer |-> transferred, args |-> args]

\* The constructor without its cliff requirement.
ConstructorErrorNoCliff(a, timestamp) ==
    IF a.initial_owner = ZeroAddress THEN ErrOwnerZero
    ELSE IF ~(a.token_address # ZeroAddress) THEN ErrTokenZero
    ELSE IF ~(a.beneficiary # ZeroAddress) THEN ErrBeneficiaryZero
    ELSE IF ~(a.duration > 0) THEN ErrDurationZero
    ELSE IF ~(a.start_time >= timestamp) THEN ErrStartTime
    ELSE ""

\* The constructor's require chain: the error of the first requirement the
\* arguments fail, "" when they pass them all.  Ownable(_initial_owner)
\* runs before the body.
ConstructorError(a, timestamp) ==
    IF a.initial_owner = ZeroAddress THEN ErrOwnerZero
    ELSE IF ~(a.token_address # ZeroAddress) THEN ErrTokenZero
    ELSE IF ~(a.beneficiary # ZeroAddress) THEN ErrBeneficiaryZero
    ELSE IF ~(a.duration > 0) THEN ErrDurationZero
    ELSE IF ~(a.cliff_duration <= a.duration) THEN ErrCliff
    ELSE IF ~(a.start_time >= timestamp) THEN ErrStartTime
    ELSE ""

\* constructor(_token_address, _beneficiary, _start_time, _cliff_duration,
\*             _duration, _initial_owner): a revert creates no contract.
\* A reverted construction leaves the chain as it was, so the deployer's next
\* attempt is taken at a later block time.
Construct(a) ==
    LET err == ConstructorError(a, now)
    IN  /\ IF err # ""
           THEN /\ lastCall' = Call("constructor", FALSE, err, 0, "none", a)
                /\ UNCHANGED <<deployed, createdAt, token, beneficiary, start_time,
                               cliff_duration, duration, owner>>
           ELSE /\ deployed' = TRUE
                /\ createdAt' = now
                /\ token' = a.token_address
                /\ beneficiary' = a.beneficiary
                /\ start_time' = a.start_time
                /\ cliff_duration' = a.cliff_duration
                /\ duration' = a.duration
                /\ owner' = a.initial_owner
                /\ lastCall' = Call("constructor", TRUE, "", 0, "none", a)
        /\ UNCHANGED <<now, released, balances>>
        /\ UNCHANGED callVars
        /\ UNCHANGED pageVars

\* A deployment with a schedule of a few time units.
Constructor ==
    /\ ~deployed
    /\ lastCall.op # "constructor"
    /\ \E a \in [token_address : TokenAddresses, beneficiary : BeneficiaryAddresses,
                 start_time : 0..MaxStart, cliff_duration : 0..MaxDuration,
                 duration : 0..MaxDuration, initial_owner : OwnerAddresses] :
          Construct(a)

\* IERC20(token).transfer(to, amount) called by `from`, with the outcome the
\* token chooses: the ledger afterwards and what the call answered.
transfer(ledger, from, to, amount, outcome) ==
    IF outcome = "revert" \/ ledger[from] < amount
    THEN [ret |-> "revert", ledger |-> ledger]
    ELSE IF outcome = "false"
    THEN [ret |-> "false", ledger |-> ledger]
    ELSE [ret |-> "true",
          ledger |-> [ledger EXCEPT ![from] = @ - amount, ![to] = @ + amount]]

\* The requirement accepting an amount of zero.
RequireTokensDueOrZero(amount_to_release) == amount_to_release >= 0

\* require(amount_to_release > 0, "TokenVesting: no tokens are due")
RequireTokensDue(amount_to_release) == amount_to_release > 0

\* released += amount_to_release, left out.
ReleasedNotAdvanced(amount_to_release) == released

\* released += amount_to_release
ReleasedAdvanced(amount_to_release) == CheckedAdd(released, amount_to_release)

\* token.transfer(beneficiary, amount_to_release) with its answer ignored.
TransferUnchecked(ret) == TRUE

\* require(token.transfer(beneficiary, amount_to_release), "...transfer failed")
RequireTransfer(ret) == ret = "true"

\* release(): the transaction's result and the contract state it leaves.  A
\* revert anywhere in the call restores the state the call started from.
release(outcome) ==
    LET amount_to_release == releasable_amount
        Revert(error, ret) ==
            [ok |-> FALSE, error |-> error, value |-> 0, transfer |-> ret,
             released |-> released, balances |-> balances]
    IN  IF amount_to_release = Panic THEN Revert(ErrPanic, "none")
        ELSE IF ~RequireTokensDue(amount_to_release)
        THEN Revert(ErrNoTokensDue, "none")
        ELSE LET advanced == ReleasedAdvanced(amount_to_release)
                 sent == transfer(balances, This, beneficiary,
                                  amount_to_release, outcome)
             IN  IF advanced = Panic THEN Revert(ErrPanic, "none")
                 ELSE IF sent.ret = "revert"
                 THEN Revert(ErrTokenReverted, sent.ret)
                 ELSE IF ~RequireTransfer(sent.ret)
                 THEN Revert(ErrTransferFailed, sent.ret)
                 ELSE [ok |-> TRUE, error |-> "", value |-> amount_to_release,
                       transfer |-> sent.ret, released |-> advanced,
                       balances |-> sent.ledger]

\* A transaction calling release().
Release ==
    /\ deployed
    /\ \E outcome \in TokenOutcomes :
          LET r == release(outcome)
          IN  /\ released' = r.released
              /\ balances' = r.balances
              /\ lastCall' = Call("release", r.ok, r.error, r.value, r.transfer, NoArgs)
    /\ UNCHANGED <<now, deployed, createdAt, token, beneficiary, start_time,
                   cliff_duration, duration, owner>>
    /\ UNCHANGED callVars
    /\ UNCHANGED pageVars

\* A call of the view releasable_amount().
ReleasableAmount ==
    /\ deployed
    /\ lastCall' = IF releasable_amount = Panic
                   THEN Call("releasable_amount", FALSE, ErrPanic, 0, "none", NoArgs)
                   ELSE Call("releasable_amount", TRUE, "", releasable_amount,
                             "none", NoArgs)
    /\ UNCHANGED <<now, deployed, createdAt, token, beneficiary, start_time,
                   cliff_duration, duration, owner, released, balances>>
    /\ UNCHANGED callVars
    /\ UNCHANGED pageVars

\* Tokens are transferred to the contract separately: the funder sends it
\* `amount` tokens.
Deposit ==
    /\ deployed
    /\ \E amount \in 1..Supply :
          /\ balances[Funder] >= amount
          /\ balances' = transfer(balances, Funder, This, amount, "ok").ledger
          /\ lastCall' = Call("deposit", TRUE, "", amount, "true", NoArgs)
    /\ UNCHANGED <<now, deployed, createdAt, token, beneficiary, start_time,
                   cliff_duration, duration, owner, released>>
    /\ UNCHANGED callVars
    /\ UNCHANGED pageVars

\* Block time passes.
AdvanceTime ==
    /\ \E dt \in 1..MaxStep :
          /\ now + dt <= MaxTime
          /\ now' = now + dt
    /\ lastCall' = Call("advance", TRUE, "", 0, "none", NoArgs)
    /\ UNCHANGED <<deployed, createdAt, token, beneficiary, start_time,
                   cliff_duration, duration, owner, released, balances>>
    /\ UNCHANGED callVars
    /\ UNCHANGED pageVars

\* -------------------------------------------------- contract: re-entrancy
\* release() with a token that calls back into the contract from inside its
\* transfer, before it moves the tokens.  The call is taken in two steps:
\* up to the external call token.transfer, and from the transfer's return.

\* A modifier that lets every call in.
EntersAlways(status) == TRUE

\* nonReentrant, before the body: the call is let in unless one is running.
NonReentrantBefore(status) == status # ENTERED

\* How a call is recorded: the outer release() of a transaction, or one
\* made by the token from inside the outer call's transfer.
ReleaseOp(depth) == IF depth = 0 THEN "release" ELSE "reentrant release"
EnteredOp(depth) == IF depth = 0 THEN "release entered" ELSE "reentrant release entered"

\* A release() call waiting in token.transfer: the amount it sends and the
\* state a revert of the call goes back to.
Frame(amount) ==
    [amount |-> amount, released |-> released, balances |-> balances,
     status |-> _status]

\* release() is called, by anyone between transactions or by the token
\* during a transfer, and runs up to token.transfer(beneficiary, amount).
\* A call that reverts changes nothing; the token goes on with its transfer.
CallRelease ==
    LET depth == Len(frames)
        amount_to_release == releasable_amount
        Reverts(error) ==
            /\ lastCall' = Call(ReleaseOp(depth), FALSE, error, 0, "none", NoArgs)
            /\ UNCHANGED <<released, _status, frames>>
    IN  /\ deployed
        /\ IF ~NonReentrantBefore(_status) THEN Reverts(ErrReentrant)
           ELSE IF amount_to_release = Panic THEN Reverts(ErrPanic)
           ELSE IF ~RequireTokensDue(amount_to_release) THEN Reverts(ErrNoTokensDue)
           ELSE IF ReleasedAdvanced(amount_to_release) = Panic THEN Reverts(ErrPanic)
           ELSE /\ _status' = ENTERED
                /\ released' = ReleasedAdvanced(amount_to_release)
                /\ frames' = Append(frames, Frame(amount_to_release))
                /\ lastCall' = Call(EnteredOp(depth), TRUE, "", amount_to_release,
                                    "pending", NoArgs)
        /\ UNCHANGED <<now, deployed, createdAt, token, beneficiary, start_time,
                       cliff_duration, duration, owner, balances>>
        /\ UNCHANGED pageVars

\* token.transfer of the innermost waiting call returns or reverts, and the
\* call runs to its end: require(...), then nonReentrant's second half.  A
\* revert undoes everything done since the call was entered.
TransferReturns ==
    /\ frames # << >>
    /\ \E outcome \in TokenOutcomes :
          LET depth == Len(frames) - 1
              call == frames[Len(frames)]
              sent == transfer(balances, This, beneficiary, call.amount, outcome)
          IN  IF sent.ret = "revert" \/ ~RequireTransfer(sent.ret)
              THEN /\ released' = call.released
                   /\ balances' = call.balances
                   /\ _status' = call.status
                   /\ lastCall' = Call(ReleaseOp(depth), FALSE,
                                       IF sent.ret = "revert" THEN ErrTokenReverted
                                       ELSE ErrTransferFailed,
                                       0, sent.ret, NoArgs)
              ELSE /\ balances' = sent.ledger
                   /\ _status' = NOT_ENTERED
                   /\ lastCall' = Call(ReleaseOp(depth), TRUE, "", call.amount,
                                       sent.ret, NoArgs)
                   /\ UNCHANGED released
    /\ frames' = SubSeq(frames, 1, Len(frames) - 1)
    /\ UNCHANGED <<now, deployed, createdAt, token, beneficiary, start_time,
                   cliff_duration, duration, owner>>
    /\ UNCHANGED pageVars

\* Transactions do not interleave: the other steps happen between calls.
Deploys == frames = << >> /\ Constructor
Funds == frames = << >> /\ Deposit
TimePasses == frames = << >> /\ AdvanceTime

\* ------------------------------------------- contract: the integer width
\* Arguments and amounts up to the largest uint: a start time at the end of
\* the range, durations of one unit and of the whole range, deposits of
\* half the range.
WideTimes == {0, MaxUint}
WideDurations == {0, 1, MaxDuration, MaxUint}
WideAmounts == {MaxUint \div 2, (MaxUint + 1) \div 2}

\* A deployment with any uint256 arguments.
ConstructorWide ==
    /\ ~deployed
    /\ lastCall.op # "constructor"
    /\ \E a \in [token_address : {"token"}, beneficiary : {"alice"},
                 start_time : WideTimes, cliff_duration : WideDurations,
                 duration : WideDurations, initial_owner : {"owner"}] :
          Construct(a)

\* The funder sends the contract an amount of any size.
DepositWide ==
    /\ deployed
    /\ \E amount \in WideAmounts :
          /\ balances[Funder] >= amount
          /\ balances' = transfer(balances, Funder, This, amount, "ok").ledger
          /\ lastCall' = Call("deposit", TRUE, "", amount, "true", NoArgs)
    /\ UNCHANGED <<now, deployed, createdAt, token, beneficiary, start_time,
                   cliff_duration, duration, owner, released>>
    /\ UNCHANGED callVars
    /\ UNCHANGED pageVars

\* A token whose whole supply, the largest uint, is the funder's.
ContractInitWide ==
    /\ now = 0
    /\ deployed = FALSE
    /\ createdAt = 0
    /\ token = ZeroAddress
    /\ beneficiary = ZeroAddress
    /\ start_time = 0
    /\ cliff_duration = 0
    /\ duration = 0
    /\ owner = ZeroAddress
    /\ released = 0
    /\ balances = [h \in Holders |-> IF h = Funder THEN MaxUint ELSE 0]
    /\ lastCall = Call("none", TRUE, "", 0, "none", NoArgs)
    /\ _status = NOT_ENTERED
    /\ frames = << >>

ContractInit ==
    /\ now = 0
    /\ deployed = FALSE
    /\ createdAt = 0
    /\ token = ZeroAddress
    /\ beneficiary = ZeroAddress
    /\ start_time = 0
    /\ cliff_duration = 0
    /\ duration = 0
    /\ owner = ZeroAddress
    /\ released = 0
    /\ balances = [h \in Holders |-> IF h = Funder THEN Supply ELSE 0]
    /\ lastCall = Call("none", TRUE, "", 0, "none", NoArgs)
    /\ _status = NOT_ENTERED
    /\ frames = << >>

\* ------------------------------------------------------------ page: values
\* Submit events handled in one run of the page.
MaxSubmits == 3

\* The text of a number field, as its characters.
DefaultCliffDuration == <<"2", "5", "9", "2", "0", "0", "0">>
DefaultTotalVesting == <<"3", "1", "5", "3", "6", "0", "0", "0">>

\* useState's initial form: placeholders, no start time, 30 days, 1 year.
DefaultFormData ==
    [tokenAddress |-> "0xTokenAddressHere",
     beneficiaryAddress |-> "0xBeneficiaryAddressHere",
     startTime |-> "",
     cliffDurationSeconds |-> DefaultCliffDuration,
     totalVestingSeconds |-> DefaultTotalVesting,
     initialOwnerAddress |-> "0xInitialOwnerAddressHere"]

\* A JavaScript number that is an integer, and the number NaN.
Num(n) == [nan |-> FALSE, value |-> n]
NaN == [nan |-> TRUE, value |-> 0]

DigitChars == <<"0", "1", "2", "3", "4", "5", "6", "7", "8", "9">>
IsDigit(c) == \E i \in 1..10 : DigitChars[i] = c
DigitValue(c) == (CHOOSE i \in 1..10 : DigitChars[i] = c) - 1

RECURSIVE TrimStart(_)
TrimStart(s) ==
    IF s # << >> /\ Head(s) = " " THEN TrimStart(Tail(s)) ELSE s

RECURSIVE DigitPrefix(_)
DigitPrefix(s) ==
    IF s = << >> \/ ~IsDigit(Head(s)) THEN << >>
    ELSE <<Head(s)>> \o DigitPrefix(Tail(s))

RECURSIVE DecimalValue(_)
DecimalValue(ds) ==
    IF ds = << >> THEN 0
    ELSE 10 * DecimalValue(SubSeq(ds, 1, Len(ds) - 1)) + DigitValue(ds[Len(ds)])

\* parseInt(s, 10): leading blanks and a sign are skipped, the longest run of
\* digits that follows is the value, and there is none without a digit.
parseInt(s) ==
    LET t == TrimStart(s)
        signed == t # << >> /\ Head(t) \in {"+", "-"}
        ds == DigitPrefix(IF signed THEN Tail(t) ELSE t)
    IN  IF ds = << >> THEN NaN
        ELSE IF signed /\ Head(t) = "-" THEN Num(0 - DecimalValue(ds))
        ELSE Num(DecimalValue(ds))

\* The start times the operator picks in the datetime-local field.
StartTimeChoices == {"1970-01-01T00:01"}

\* new Date(s).getTime(): the milliseconds of a datetime-local text (read in
\* a browser whose zone is UTC), NaN for a text that is no date.
DateGetTime(s) ==
    IF s = "1970-01-01T00:01" THEN Num(60000) ELSE NaN

\* Date.now(), the clock of the page being the chain's.
DateNow == Num(now * 1000)

\* Math.floor(ms / 1000)
FloorSeconds(ms) == IF ms.nan THEN NaN ELSE Num(ms.value \div 1000)

\* The payload handleSubmit builds from the form.
BuildPayload(form) ==
    [contract |-> "TokenVesting",
     params |->
        [token_address |-> form.tokenAddress,
         beneficiary |-> form.beneficiaryAddress,
         start_time |-> IF form.startTime # ""
                        THEN FloorSeconds(DateGetTime(form.startTime))
                        ELSE FloorSeconds(DateNow),
         cliff_duration |-> parseInt(form.cliffDurationSeconds),
         duration |-> parseInt(form.totalVestingSeconds),
         initial_owner |-> form.initialOwnerAddress]]

\* null, as the value of deployedContractInfo.
NullInfo == [json |-> TRUE, null |-> TRUE, success |-> FALSE, message |-> "",
             contract_address |-> ""]

\* What response.json() is asked to read: a body that is no JSON, the JSON
\* null, or the result object of the backend.
NotJson == [json |-> FALSE, null |-> FALSE, success |-> FALSE, message |-> "",
            contract_address |-> ""]
Result(success, message, address) ==
    [json |-> TRUE, null |-> FALSE, success |-> success, message |-> message,
     contract_address |-> address]

\* How an awaited fetch settles: it rejects, or it resolves to a response
\* with a status and a body.
FetchRejected == [kind |-> "throw", ok |-> FALSE, status |-> "", body |-> NotJson]
HttpResponse(status, body) ==
    [kind |-> "response", ok |-> status = "200", status |-> status, body |-> body]

\* null, as the value of submissionResult.
NullResult == << >>

\* a || b on strings
OrElse(a, b) == IF a # "" THEN a ELSE b

\* ----------------------------------------------------------- page: handlers
\* handleChange: one field takes the value typed.
handleChange(name, value) == [formData EXCEPT ![name] = value]

\* handleSubmit up to its await (lines 32-61): the states it sets and the
\* requests it sends.
handleSubmit ==
    [submissionResult |-> <<"Submitting...">>,
     deployedContractInfo |-> NullInfo,
     fetched |-> <<BuildPayload(formData)>>]

\* The catch block sending the request again.
CaughtAndRetried(message) ==
    [submissionResult |-> <<"Error: ", message>>,
     deployedContractInfo |-> NullInfo,
     fetched |-> <<BuildPayload(formData)>>,
     outcome |-> "error"]

\* The catch block (lines 77-81).
Caught(message) ==
    [submissionResult |-> <<"Error: ", message>>,
     deployedContractInfo |-> NullInfo,
     fetched |-> << >>,
     outcome |-> "error"]

\* The else branch without its setDeployedContractInfo(null).
BackendFailureKeepingInfo(result) ==
    [submissionResult |->
        <<"Deployment failed: ", OrElse(result.message, "Unknown error.")>>,
     deployedContractInfo |-> deployedContractInfo,
     fetched |-> << >>,
     outcome |-> "failed"]

\* The else branch of `if (result.success)` (lines 73-76).
BackendFailure(result) ==
    [submissionResult |->
        <<"Deployment failed: ", OrElse(result.message, "Unknown error.")>>,
     deployedContractInfo |-> NullInfo,
     fetched |-> << >>,
     outcome |-> "failed"]

\* handleSubmit from the settling of its fetch (lines 57-81): the states it
\* sets, the requests it sends and the branch it ended in.
handleSubmitSettled(resp) ==
    IF resp.kind = "throw" THEN Caught("Failed to fetch")
    ELSE IF ~resp.ok THEN Caught("HTTP error " \o resp.status)
    ELSE IF ~resp.body.json THEN Caught("Unexpected token")
    ELSE IF resp.body.null THEN Caught("Cannot read properties of null")
    ELSE IF resp.body.success
    THEN [submissionResult |->
             <<"Deployment successful: ",
               OrElse(resp.body.message, "See details below.")>>,
          deployedContractInfo |-> resp.body,
          fetched |-> << >>,
          outcome |-> "success"]
    ELSE BackendFailure(resp.body)

\* The render (lines 182-209): whether the status box and the contract
\* details are shown.
StatusShown == submissionResult # NullResult
DetailsShown ==
    StatusShown /\ ~deployedContractInfo.null /\ deployedContractInfo.success

\* A request in flight: its payload, the stage of the backend pipeline it
\* has reached, the rule violations validation found, how often the
\* compiler ran for it, how far its deployment transaction got ("none",
\* "built", "broadcast") and the answer the backend has for it.
Request(payload) ==
    [payload |-> payload, stage |-> "sent", violations |-> {},
     compilerRuns |-> 0, tx |-> "none", answer |-> FetchRejected]

\* The request of an event that is about none.
NoRequest ==
    Request([contract |-> "",
             params |-> [token_address |-> "", beneficiary |-> "",
                         start_time |-> NaN, cliff_duration |-> NaN,
                         duration |-> NaN, initial_owner |-> ""]])

\* What a step of the page records: the handler run, the request it was
\* about (with its number), the branch it ended in and the response it read.
Event(op, id, request, outcome, resp) ==
    [op |-> op, id |-> id, request |-> request, outcome |-> outcome,
     response |-> resp]

\* The requests `flight` with the payloads `fetched` added, numbered on from
\* the fetches made so far.
Sent(flight, fetched) ==
    [i \in DOMAIN flight \cup (fetches + 1)..(fetches + Len(fetched)) |->
        IF i \in DOMAIN flight THEN flight[i]
        ELSE Request(fetched[i - fetches])]

\* A submit event: handleSubmit runs up to its await.
Submit ==
    /\ submits < MaxSubmits
    /\ submits' = submits + 1
    /\ submissionResult' = handleSubmit.submissionResult
    /\ deployedContractInfo' = handleSubmit.deployedContractInfo
    /\ inflight' = Sent(inflight, handleSubmit.fetched)
    /\ fetches' = fetches + Len(handleSubmit.fetched)
    /\ lastEvent' = Event("submit", submits + 1,
                          Request(Head(handleSubmit.fetched)), "", FetchRejected)
    /\ UNCHANGED formData
    /\ UNCHANGED newest
    /\ UNCHANGED contractVars

\* The fetch of request `id` settles with `resp` and its handleSubmit runs to
\* its end.
Settle(id, resp) ==
    LET h == handleSubmitSettled(resp)
        rest == [i \in DOMAIN inflight \ {id} |-> inflight[i]]
    IN  /\ submissionResult' = h.submissionResult
        /\ deployedContractInfo' = h.deployedContractInfo
        /\ inflight' = Sent(rest, h.fetched)
        /\ fetches' = fetches + Len(h.fetched)
        /\ lastEvent' = Event("settled", id, inflight[id], h.outcome, resp)
        /\ UNCHANGED <<formData, submits>>
        /\ UNCHANGED contractVars

\* The ways the fetch of a request can settle, seen from the page.
Responses ==
    {FetchRejected,
     HttpResponse("500", NotJson),
     HttpResponse("422", Result(FALSE, "cliff_duration must be <= duration", "")),
     HttpResponse("200", NotJson),
     HttpResponse("200", NullInfo),
     HttpResponse("200", Result(TRUE, "Contract deployed", "0xC0ffee")),
     HttpResponse("200", Result(TRUE, "", "0xC0ffee")),
     HttpResponse("200", Result(FALSE, "Compilation failed", "")),
     HttpResponse("200", Result(FALSE, "", ""))}

\* The response that answers request `id`.
Answer(id, resp) == [id |-> id, response |-> resp]

\* The fetch of some request in flight settles, in any order.
FetchSettles ==
    \E id \in DOMAIN inflight : \E resp \in Responses :
        /\ inflight[id].stage = "sent"
        /\ Settle(id, resp)
        /\ newest' = IF id > newest.id THEN Answer(id, resp) ELSE newest

\* ------------------------------------------------------- page: the operator
\* What the operator types into the address fields and the number fields.
AddressInputs == {"0xA1"}
\* A number field takes every valid floating-point literal, so 1e3 as well.
NumberInputs == {<<"4", "0", "0", "0", "0", "0", "0", "0">>, <<"0">>,
                 <<"1", "e", "3">>}

\* A change event of one of the form's inputs.
HandleChange ==
    /\ \/ \E name \in {"tokenAddress", "beneficiaryAddress", "initialOwnerAddress"} :
             \E value \in AddressInputs :
                formData' = handleChange(name, value)
       \/ \E name \in {"cliffDurationSeconds", "totalVestingSeconds"} :
             \E value \in NumberInputs :
                formData' = handleChange(name, value)
       \/ \E value \in StartTimeChoices :
             formData' = handleChange("startTime", value)
    /\ formData' # formData
    /\ lastEvent' = Event("change", 0, NoRequest, "", FetchRejected)
    /\ UNCHANGED <<submissionResult, deployedContractInfo, submits, fetches, inflight>>
    /\ UNCHANGED newest
    /\ UNCHANGED contractVars

\* ------------------------------------------------------ backend pipeline
\* Hex strings that are well-formed addresses.
WellFormedAddresses == {"0xA1", ZeroAddress}

IsNonNegativeInteger(n) == ~n.nan /\ n.value >= 0

\* The rules on single fields, on the duration and on the start time that
\* the parameters violate.
FieldViolations(params, current_time) ==
    {[rule |-> "address", fields |-> {f}] :
        f \in {g \in {"token_address", "beneficiary", "initial_owner"} :
                  params[g] \notin WellFormedAddresses \/ params[g] = ZeroAddress}}
    \cup
    {[rule |-> "non-negative integer", fields |-> {f}] :
        f \in {g \in {"start_time", "cliff_duration", "duration"} :
                  ~IsNonNegativeInteger(params[g])}}
    \cup
    {v \in {[rule |-> "duration > 0", fields |-> {"duration"}]} :
        ~params.duration.nan /\ ~(params.duration.value > 0)}
    \cup
    {v \in {[rule |-> "start_time >= current_time", fields |-> {"start_time"}]} :
        ~params.start_time.nan /\ ~(params.start_time.value >= current_time)}

\* Validation without the rule between cliff and duration.
ViolationsWithoutCliffRule(params, current_time) ==
    FieldViolations(params, current_time)

\* validate(descriptor, raw_params): the rules the parameters violate, each
\* with the fields it names; the set is rejected unless there is none.
Violations(params, current_time) ==
    FieldViolations(params, current_time)
    \cup
    {v \in {[rule |-> "cliff_duration <= duration",
             fields |-> {"cliff_duration", "duration"}]} :
        /\ ~params.cliff_duration.nan
        /\ ~params.duration.nan
        /\ ~(params.cliff_duration.value <= params.duration.value)}

\* The constructor arguments of a validated parameter set, in the order the
\* constructor declares them.
ConstructorArguments(params) ==
    [token_address |-> params.token_address,
     beneficiary |-> params.beneficiary,
     start_time |-> params.start_time.value,
     cliff_duration |-> params.cliff_duration.value,
     duration |-> params.duration.value,
     initial_owner |-> params.initial_owner]

\* A stage ends the request with a failure result.
Failed(r, error) ==
    [r EXCEPT !.stage = "answered",
              !.answer = HttpResponse("200", Result(FALSE, error, ""))]

\* Parameter Validator: the first stage.
Validate ==
    /\ \E id \in DOMAIN inflight :
          LET r == inflight[id]
              found == Violations(r.payload.params, now)
          IN  /\ r.stage = "sent"
              /\ inflight' =
                    [inflight EXCEPT ![id] =
                        IF found = {} THEN [r EXCEPT !.stage = "validated"]
                        ELSE [Failed(r, "ValidationError") EXCEPT
                                 !.violations = found]]
    /\ UNCHANGED <<formData, submissionResult, deployedContractInfo, submits,
                   fetches, lastEvent>>
    /\ UNCHANGED newest
    /\ UNCHANGED contractVars

\* Template Renderer: source from the validated parameters, or a RenderError.
Render ==
    /\ \E id \in DOMAIN inflight : \E rendered \in BOOLEAN :
          LET r == inflight[id]
          IN  /\ r.stage = "validated"
              /\ inflight' =
                    [inflight EXCEPT ![id] =
                        IF rendered THEN [r EXCEPT !.stage = "rendered"]
                        ELSE Failed(r, "RenderError")]
    /\ UNCHANGED <<formData, submissionResult, deployedContractInfo, submits,
                   fetches, lastEvent>>
    /\ UNCHANGED newest
    /\ UNCHANGED contractVars

\* Compiler Adapter: the compiler runs on the rendered source and gives an
\* artifact, error diagnostics, or no answer in time.
Compile ==
    /\ \E id \in DOMAIN inflight : \E outcome \in {"artifact", "errors", "timeout"} :
          LET r == [inflight[id] EXCEPT !.compilerRuns = @ + 1]
          IN  /\ inflight[id].stage = "rendered"
              /\ inflight' =
                    [inflight EXCEPT ![id] =
                        IF outcome = "artifact" THEN [r EXCEPT !.stage = "compiled"]
                        ELSE Failed(r, "CompileError")]
    /\ UNCHANGED <<formData, submissionResult, deployedContractInfo, submits,
                   fetches, lastEvent>>
    /\ UNCHANGED newest
    /\ UNCHANGED contractVars

\* Deployment Executor: encode, build, sign, broadcast, await inclusion; the
\* included transaction runs the contract's constructor at the block time.
Deploy ==
    /\ \E id \in DOMAIN inflight :
       \E outcome \in {"EncodingError", "SigningError", "BroadcastError",
                       "ConfirmationTimeout", "included"} :
          LET r == inflight[id]
              reverted == ConstructorError(ConstructorArguments(r.payload.params), now)
          IN  /\ r.stage = "compiled"
              /\ inflight' =
                    [inflight EXCEPT ![id] =
                        IF outcome = "EncodingError" THEN Failed(r, outcome)
                        ELSE IF outcome \in {"SigningError", "BroadcastError"}
                        THEN Failed([r EXCEPT !.tx = "built"], outcome)
                        ELSE IF outcome = "ConfirmationTimeout"
                        THEN Failed([r EXCEPT !.tx = "broadcast"], outcome)
                        ELSE IF reverted # ""
                        THEN Failed([r EXCEPT !.tx = "broadcast"], reverted)
                        ELSE [r EXCEPT !.tx = "broadcast", !.stage = "answered",
                                 !.answer = HttpResponse("200",
                                     Result(TRUE, "Contract deployed", "0xC0ffee"))]]
    /\ UNCHANGED <<formData, submissionResult, deployedContractInfo, submits,
                   fetches, lastEvent>>
    /\ UNCHANGED newest
    /\ UNCHANGED contractVars

\* Pipeline Orchestrator: the result goes back and the fetch settles with it.
Respond ==
    \E id \in DOMAIN inflight :
        /\ inflight[id].stage = "answered"
        /\ Settle(id, inflight[id].answer)
        /\ UNCHANGED newest

\* The operator edits the form and submits while no request is in flight.
OperatorEdits == inflight = << >> /\ HandleChange
OperatorSubmits == inflight = << >> /\ Submit

PageInit ==
    /\ formData = DefaultFormData
    /\ submissionResult = NullResult
    /\ deployedContractInfo = NullInfo
    /\ submits = 0
    /\ fetches = 0
    /\ inflight = << >>
    /\ lastEvent = Event("none", 0, NoRequest, "", FetchRejected)
    /\ newest = Answer(0, FetchRejected)

Init == ContractInit /\ PageInit

Next ==
    \/ Constructor
    \/ Release
    \/ ReleasableAmount
    \/ Deposit
    \/ AdvanceTime

Spec == Init /\ [][Next]_vars

\* The page with its requests answered by whatever the network brings.
\* A release() that goes through: tokens are due and the token's transfer
\* moves them and returns true.
ReleaseSucceeds ==
    /\ deployed
    /\ releasable_amount > 0
    /\ released' = released + releasable_amount
    /\ balances' = [balances EXCEPT ![This] = @ - releasable_amount,
                                    ![beneficiary] = @ + releasable_amount]
    /\ lastCall' = Call("release", TRUE, "", releasable_amount, "true", NoArgs)
    /\ UNCHANGED <<now, deployed, createdAt, token, beneficiary, start_time,
                   cliff_duration, duration, owner>>
    /\ UNCHANGED callVars
    /\ UNCHANGED pageVars

\* The contract on a chain whose time keeps advancing and where release()
\* keeps being called until a call goes through.
SpecLive ==
    /\ Init
    /\ [][Next]_vars
    /\ WF_vars(AdvanceTime)
    /\ WF_vars(ReleaseSucceeds)

\* The contract with a token that calls back.
NextReentrant ==
    \/ Deploys
    \/ Funds
    \/ TimePasses
    \/ CallRelease
    \/ TransferReturns

SpecReentrant == Init /\ [][NextReentrant]_vars

\* The contract with arguments and balances over the whole integer width.
NextWide ==
    \/ ConstructorWide
    \/ Release
    \/ ReleasableAmount
    \/ DepositWide
    \/ AdvanceTime

InitWide == ContractInitWide /\ PageInit

SpecWide == InitWide /\ [][NextWide]_vars

NextPage ==
    \/ Submit
    \/ FetchSettles

SpecPage == Init /\ [][NextPage]_vars

\* The page of one operator, its requests answered by the backend pipeline.
NextPipeline ==
    \/ OperatorEdits
    \/ OperatorSubmits
    \/ Validate
    \/ Render
    \/ Compile
    \/ Deploy
    \/ Respond
    \/ AdvanceTime

SpecPipeline == Init /\ [][NextPipeline]_vars

\* ------------------------------------------------------------ properties
\* The truncating quotient of n by d, by what defines it: the q with
\* q * d <= n < (q + 1) * d.
FloorQuotient(n, d) == CHOOSE q \in 0..n : q * d <= n /\ n < (q + 1) * d

\* The vesting schedule of the design: nothing before the end of the cliff,
\* everything from the end of the duration, in between the truncated
\* share of `total` that the time since start_time is of the duration.
VestedReference(total, t) ==
    IF t < start_time + cliff_duration THEN 0
    ELSE IF t >= start_time + duration THEN total
    ELSE FloorQuotient(total * (t - start_time), duration)

InCliff(t) == t < start_time + cliff_duration
InLinearPhase(t) == start_time + cliff_duration <= t /\ t < start_time + duration
AfterEnd(t) == t >= start_time + duration

\* C1: for every deployed contract (cliff_duration <= duration, duration > 0),
\* every total ever held (token balance + released) and every timestamp t,
\* _vested_amount(t) is the piecewise schedule: 0 before start_time +
\* cliff_duration, the total from start_time + duration, and in between the
\* truncating quotient total * (t - start_time) / duration.
C1_VestedIsPiecewise ==
    deployed =>
        \A t \in 0..MaxTime :
            _vested_amount(t) = VestedReference(balanceOf(This) + released, t)

\* C1 witness: releasable_amount() was called in the linear phase, after a
\* cliff, where the quotient truncates and something has vested.
C1_Witness ==
    /\ deployed
    /\ lastCall.op = "releasable_amount"
    /\ cliff_duration > 0
    /\ InLinearPhase(now)
    /\ ((balanceOf(This) + released) * (now - start_time)) % duration # 0
    /\ _vested_amount(now) > 0
    /\ _vested_amount(now) < balanceOf(This) + released

\* C2: for fixed parameters and total, _vested_amount is non-decreasing in
\* its timestamp: t1 <= t2 implies _vested_amount(t1) <= _vested_amount(t2),
\* across the end of the cliff and the end of the duration too.
C2_VestedMonotonic ==
    deployed =>
        \A t1 \in 0..MaxTime : \A t2 \in t1..MaxTime :
            /\ _vested_amount(t1) # Panic
            /\ _vested_amount(t1) <= _vested_amount(t2)

\* C2 witness: a schedule whose vested amount steps up at the end of the
\* cliff and again at the end of the duration, read at the end of the cliff.
C2_Witness ==
    /\ deployed
    /\ lastCall.op = "releasable_amount"
    /\ cliff_duration > 0
    /\ now = start_time + cliff_duration
    /\ start_time + duration <= MaxTime
    /\ _vested_amount(now - 1) = 0
    /\ _vested_amount(now) > 0
    /\ _vested_amount(now) < _vested_amount(start_time + duration)

\* C3: release() succeeds only when releasable_amount() > 0, and a successful
\* release() adds exactly the amount releasable when it was called to
\* `released`, takes exactly that amount from the contract's token balance
\* and gives exactly that amount to the beneficiary; no other balance moves.
C3_ReleaseMovesReleasable ==
    [][(lastCall'.op = "release" /\ lastCall'.ok) =>
          /\ releasable_amount > 0
          /\ released' = released + releasable_amount
          /\ balances'[This] = balances[This] - releasable_amount
          /\ balances'[beneficiary] = balances[beneficiary] + releasable_amount
          /\ \A h \in Holders \ {This, beneficiary} : balances'[h] = balances[h]
      ]_vars

\* C3 witness: a release() in the linear phase has paid the beneficiary a
\* part of the tokens and the contract holds the rest.
C3_Witness ==
    /\ lastCall.op = "release"
    /\ lastCall.ok
    /\ lastCall.value > 0
    /\ InLinearPhase(now)
    /\ released = lastCall.value
    /\ balances[beneficiary] = lastCall.value
    /\ balances[This] > 0

\* C4: when token.transfer returns false or reverts, release() fails and
\* `released` and every token balance are what they were before the call.
C4_ReleaseAtomic ==
    [][(lastCall'.op = "release" /\ lastCall'.transfer \in {"false", "revert"}) =>
          /\ ~lastCall'.ok
          /\ released' = released
          /\ balances' = balances
      ]_vars

\* C4 witness: a release() of a positive amount whose transfer returned false.
C4_Witness ==
    /\ lastCall.op = "release"
    /\ lastCall.transfer = "false"
    /\ lastCall.error = ErrTransferFailed
    /\ releasable_amount > 0

\* C5: when releasable_amount() is 0, release() fails with "no tokens are
\* due" and leaves `released` and every token balance unchanged.
C5_NothingDueFails ==
    [][(lastCall'.op = "release" /\ releasable_amount = 0) =>
          /\ ~lastCall'.ok
          /\ lastCall'.error = ErrNoTokensDue
          /\ released' = released
          /\ balances' = balances
      ]_vars

\* C5 witness: release() failed with "no tokens are due" although the
\* contract holds tokens, all vested ones having been released before.
C5_Witness ==
    /\ lastCall.op = "release"
    /\ ~lastCall.ok
    /\ lastCall.error = ErrNoTokensDue
    /\ released > 0
    /\ balances[This] > 0

\* The constructor arguments that violate the contract's requirements at
\* block time `timestamp`.
ViolatesRequirements(a, timestamp) ==
    \/ a.token_address = ZeroAddress
    \/ a.beneficiary = ZeroAddress
    \/ a.duration = 0
    \/ a.cliff_duration > a.duration
    \/ a.start_time < timestamp

\* C6: construction with a zero token or beneficiary address, a zero
\* duration, a cliff longer than the duration or a start time in the past
\* fails and creates no contract state; so every deployed contract has
\* cliff_duration <= duration, duration > 0, non-zero addresses and a start
\* time not before its construction.
C6_ConstructorGuards ==
    /\ (lastCall.op = "constructor" /\ ViolatesRequirements(lastCall.args, now)) =>
          ~lastCall.ok /\ ~deployed
    /\ ~deployed =>
          /\ token = ZeroAddress /\ beneficiary = ZeroAddress
          /\ start_time = 0 /\ cliff_duration = 0 /\ duration = 0
          /\ released = 0
    /\ deployed =>
          /\ token # ZeroAddress
          /\ beneficiary # ZeroAddress
          /\ duration > 0
          /\ cliff_duration <= duration
          /\ start_time >= createdAt

\* C6 witness: a construction whose only fault is a cliff longer than the
\* duration was rejected with the cliff error.
C6_Witness ==
    /\ lastCall.op = "constructor"
    /\ ~lastCall.ok
    /\ lastCall.error = ErrCliff
    /\ lastCall.args.cliff_duration > lastCall.args.duration
    /\ lastCall.args.start_time >= now
    /\ ~deployed

\* C8: the total ever held is read anew on every call: a deposit of D > 0
\* tokens at time t never lowers the vested amount at t, makes it the
\* truncated (T + D) * (t - start_time) / duration in the linear phase (T the
\* total before the deposit), and from start_time + duration on the whole
\* deposit is releasable at once.
C8_DepositJoinsSchedule ==
    [][lastCall'.op = "deposit" =>
          LET D == lastCall'.value
              T == balances[This] + released
          IN  /\ D > 0
              /\ balances'[This] = balances[This] + D
              /\ (_vested_amount(now))' >= _vested_amount(now)
              /\ InLinearPhase(now) =>
                    (_vested_amount(now))' =
                        FloorQuotient((T + D) * (now - start_time), duration)
              /\ AfterEnd(now) =>
                    /\ (_vested_amount(now))' = T + D
                    /\ releasable_amount' = releasable_amount + D
      ]_vars

\* C8 witness: a deposit in the linear phase, after tokens deposited earlier
\* have partly been released.
C8_Witness ==
    /\ lastCall.op = "deposit"
    /\ released > 0
    /\ InLinearPhase(now)
    /\ _vested_amount(now) > released

\* A settled fetch that is a failure: a rejected fetch, a status that is not
\* OK, a body that cannot be read, or a result whose success flag is false.
IsFailure(resp) ==
    \/ resp.kind = "throw"
    \/ ~resp.ok
    \/ ~resp.body.json
    \/ resp.body.null
    \/ ~resp.body.success

\* C9: every submit event sends exactly one deploy request and no failure
\* path (a status that is not OK, success false, a thrown error) sends
\* another: the requests sent are as many as the submit events, and each
\* request in flight is the one of a submit event.
C9_OneRequestPerSubmit ==
    /\ fetches = submits
    /\ DOMAIN inflight \subseteq 1..submits

\* C9 witness: two submit events, both requests settled, the last one in
\* the catch block.
C9_Witness ==
    /\ submits = 2
    /\ fetches = 2
    /\ inflight = << >>
    /\ lastEvent.op = "settled"
    /\ lastEvent.outcome = "error"
    /\ IsFailure(lastEvent.response)

\* C10: deployedContractInfo is non-null only as a response whose success
\* flag is true, the contract details are shown only then, and right after
\* a request settles as a failure deployedContractInfo is null and the
\* status message reports the failure.
C10_InfoOnlyOnSuccess ==
    /\ ~deployedContractInfo.null =>
          /\ deployedContractInfo.json
          /\ deployedContractInfo.success
    /\ DetailsShown =>
          /\ ~deployedContractInfo.null
          /\ deployedContractInfo.success
    /\ (lastEvent.op = "settled" /\ IsFailure(lastEvent.response)) =>
          /\ deployedContractInfo = NullInfo
          /\ ~DetailsShown
          /\ StatusShown
          /\ Head(submissionResult) \in {"Error: ", "Deployment failed: "}

\* C10 witness: a request settled with success false while another request
\* is still in flight.
C10_Witness ==
    /\ lastEvent.op = "settled"
    /\ lastEvent.response.ok
    /\ lastEvent.response.body.json
    /\ ~lastEvent.response.body.null
    /\ ~lastEvent.response.body.success
    /\ deployedContractInfo = NullInfo
    /\ Head(submissionResult) = "Deployment failed: "
    /\ inflight # << >>

\* Whether a request's parameters have a cliff longer than the duration.
CliffExceedsDuration(r) ==
    /\ ~r.payload.params.cliff_duration.nan
    /\ ~r.payload.params.duration.nan
    /\ r.payload.params.cliff_duration.value > r.payload.params.duration.value

\* A request that went no further than validation, and if answered was
\* rejected there with a violation naming cliff_duration and duration.
StoppedAtValidation(r) ==
    /\ r.stage \in {"sent", "answered"}
    /\ r.compilerRuns = 0
    /\ r.tx = "none"
    /\ r.stage = "answered" =>
          /\ ~r.answer.body.success
          /\ \E v \in r.violations : v.fields = {"cliff_duration", "duration"}

\* C7: every request submitted with cliff_duration > duration is rejected at
\* validation with an error naming cliff_duration and duration, and no later
\* stage runs for it: the compiler is never invoked and no deployment
\* transaction is built or broadcast.
C7_CliffRejectedAtValidation ==
    /\ \A id \in DOMAIN inflight :
          CliffExceedsDuration(inflight[id]) => StoppedAtValidation(inflight[id])
    /\ (lastEvent.op = "settled" /\ CliffExceedsDuration(lastEvent.request)) =>
          /\ StoppedAtValidation(lastEvent.request)
          /\ lastEvent.request.stage = "answered"
          /\ lastEvent.outcome = "failed"

\* C7 witness: a request with a cliff of 40000000 and the default duration,
\* its addresses well-formed, was answered by validation with that one
\* violation and the page has shown the failure.
C7_Witness ==
    /\ lastEvent.op = "settled"
    /\ lastEvent.request.payload.params.cliff_duration = Num(40000000)
    /\ lastEvent.request.payload.params.duration = Num(31536000)
    /\ lastEvent.request.violations =
          {[rule |-> "cliff_duration <= duration",
            fields |-> {"cliff_duration", "duration"}]}
    /\ lastEvent.request.compilerRuns = 0
    /\ Head(submissionResult) = "Deployment failed: "

\* ------------------------------------------------------------------ C11
\* The number a number field holds (its valueAsNumber): decimal digits,
\* then possibly an exponent of ten.
FieldNumber(s) ==
    LET m == DigitPrefix(s)
        rest == SubSeq(s, Len(m) + 1, Len(s))
    IN  IF m = << >> THEN NaN
        ELSE IF rest = << >> THEN Num(DecimalValue(m))
        ELSE IF /\ Head(rest) \in {"e", "E"}
                /\ Tail(rest) # << >>
                /\ DigitPrefix(Tail(rest)) = Tail(rest)
        THEN Num(DecimalValue(m) * 10 ^ DecimalValue(Tail(rest)))
        ELSE NaN

\* The Unix seconds the form's start time stands for.
ChosenStartSeconds(form) ==
    IF form.startTime = "" THEN Num(now) ELSE Num(60)

\* C11: every payload sent by handleSubmit names the template TokenVesting
\* and carries the six parameters by name, start_time, cliff_duration and
\* duration being integers: the seconds of the chosen start time (the
\* current time when none is chosen) and the base-10 values of the two
\* number fields, whatever the fields hold.
C11_PayloadCarriesFieldValues ==
    lastEvent.op = "submit" =>
        LET payload == lastEvent.request.payload
        IN  /\ payload.contract = "TokenVesting"
            /\ DOMAIN payload.params =
                   {"token_address", "beneficiary", "start_time",
                    "cliff_duration", "duration", "initial_owner"}
            /\ payload.params.token_address = formData.tokenAddress
            /\ payload.params.beneficiary = formData.beneficiaryAddress
            /\ payload.params.initial_owner = formData.initialOwnerAddress
            /\ payload.params.start_time = ChosenStartSeconds(formData)
            /\ payload.params.cliff_duration =
                   FieldNumber(formData.cliffDurationSeconds)
            /\ payload.params.duration =
                   FieldNumber(formData.totalVestingSeconds)
            /\ ~payload.params.cliff_duration.nan
            /\ ~payload.params.duration.nan

\* ------------------------------------------------------------------ C12
\* C12: during the cliff nothing vests: in every state whose time is before
\* start_time + cliff_duration, releasable_amount() is 0 and a release() made
\* there has failed, so whatever deposits, time advances and release
\* attempts came before, the beneficiary holds no token of the contract and
\* released is 0.
C12_NothingDuringCliff ==
    (deployed /\ InCliff(now)) =>
        /\ releasable_amount = 0
        /\ released = 0
        /\ balances[beneficiary] = 0
        /\ lastCall.op = "release" =>
               /\ ~lastCall.ok
               /\ lastCall.error = ErrNoTokensDue
               /\ lastCall.value = 0

\* A release attempted on a funded contract after start_time, inside the
\* cliff.
C12_Witness ==
    /\ deployed
    /\ InCliff(now)
    /\ now > start_time
    /\ balances[This] > 0
    /\ lastCall.op = "release"
    /\ ~lastCall.ok

\* ------------------------------------------------------------------ C13
\* C13: in every state reached by deposits, time advances and release()
\* calls, released <= _vested_amount(now) <= balance + released, so the
\* subtraction of releasable_amount() does not underflow and no more is
\* released than has vested.
C13_ReleasedWithinVested ==
    deployed =>
        /\ _vested_amount(now) # Panic
        /\ released <= _vested_amount(now)
        /\ _vested_amount(now) <= balances[This] + released
        /\ releasable_amount # Panic
        /\ releasable_amount >= 0

\* Part released, part vested and not yet released, part not yet vested.
C13_Witness ==
    /\ deployed
    /\ InLinearPhase(now)
    /\ 0 < released
    /\ released < _vested_amount(now)
    /\ _vested_amount(now) < balances[This] + released

\* ------------------------------------------------------------------ C18
\* C18: release() takes everything due at its time: right after a successful
\* release(), at the same time and with no deposit in between,
\* releasable_amount() is 0 and a second release() fails, whatever the token
\* would do; balance + released is what it was before the release.
C18_ReleaseExhaustive ==
    [][/\ (lastCall'.op = "release" /\ lastCall'.ok) =>
              /\ releasable_amount' = 0
              /\ \A outcome \in TokenOutcomes : ~(release(outcome).ok)'
              /\ balances'[This] + released' = balances[This] + released
       /\ (lastCall.op = "release" /\ lastCall.ok /\ lastCall'.op = "release") =>
              /\ ~lastCall'.ok
              /\ lastCall'.error = ErrNoTokensDue
              /\ UNCHANGED <<released, balances>>]_vars

\* A second release() right after a successful one that left tokens in the
\* contract.
C18_Witness ==
    /\ deployed
    /\ InLinearPhase(now)
    /\ lastCall.op = "release"
    /\ ~lastCall.ok
    /\ 0 < released
    /\ released = _vested_amount(now)
    /\ balances[This] > 0

\* ------------------------------------------------------------------ C15
\* What the page shows once `resp` has been processed.
Shown(resp) ==
    [submissionResult |-> handleSubmitSettled(resp).submissionResult,
     deployedContractInfo |-> handleSubmitSettled(resp).deployedContractInfo]

\* C15: when submissions overlap, once every response has been processed the
\* page shows the submissionResult and the deployedContractInfo of the most
\* recently submitted request, in whatever order the responses arrived.
C15_NewestRequestShown ==
    (submits >= 2 /\ inflight = << >> /\ lastEvent.op = "settled") =>
        /\ newest.id = submits
        /\ submissionResult = Shown(newest.response).submissionResult
        /\ deployedContractInfo = Shown(newest.response).deployedContractInfo

\* ------------------------------------------------------------------ C16
\* C16: for every contract whose constructor succeeded, every time from the
\* construction on and every token balance, releasable_amount() returns a
\* value: start_time + cliff_duration, start_time + duration and
\* total_balance * (t - start_time) stay within the integer width.
C16_ReleasableNeverReverts ==
    (deployed /\ now >= createdAt) =>
        /\ releasable_amount # Panic
        /\ lastCall.op = "releasable_amount" => lastCall.ok

\* ------------------------------------------------------------------ C17
\* Every token ever deposited is the beneficiary's and counted as released.
AllWithBeneficiary ==
    /\ deployed
    /\ balances[This] = 0
    /\ balances[beneficiary] = released
    /\ released = Supply - balances[Funder]

\* C17, as stated: once the time is start_time + duration or later, a
\* release() call made with a non-zero balance transfers the entire balance
\* and leaves the contract with none; and with time advancing and release()
\* being called fairly, every token ever deposited is eventually the
\* beneficiary's (transferred = released = deposited).
C17_ReleaseAfterEndEmpties ==
    /\ [][(lastCall'.op = "release" /\ deployed /\ AfterEnd(now)
              /\ balances[This] > 0) =>
             /\ balances'[This] = 0
             /\ balances'[beneficiary] = balances[beneficiary] + balances[This]]_vars
    /\ deployed ~> AllWithBeneficiary

\* C17, amended: once the time is start_time + duration or later, a
\* release() call made with a non-zero balance transfers the entire balance
\* and leaves the contract with none when the token's transfer succeeds, and
\* moves nothing when it returns false or reverts; with time advancing and
\* release() being called until its transfer succeeds, every token ever
\* deposited is eventually the beneficiary's (transferred = released =
\* deposited).  The steps SpecLive is fair to are exactly the release()
\* calls that succeed.
C17_ReleaseAfterEndEmptiesOnSuccess ==
    /\ [][(lastCall'.op = "release" /\ deployed /\ AfterEnd(now)
              /\ balances[This] > 0) =>
             IF lastCall'.ok
             THEN /\ lastCall'.transfer = "true"
                  /\ balances'[This] = 0
                  /\ balances'[beneficiary] = balances[beneficiary] + balances[This]
                  /\ released' = released + balances[This]
             ELSE /\ lastCall'.transfer \in {"false", "revert"}
                  /\ UNCHANGED <<released, balances>>]_vars
    /\ [][ReleaseSucceeds <=> (Release /\ lastCall'.ok)]_vars
    /\ deployed ~> AllWithBeneficiary

\* After the end, a release has emptied a contract that had been funded and
\* partly released before.
C17_Witness ==
    /\ deployed
    /\ AfterEnd(now)
    /\ lastCall.op = "release"
    /\ lastCall.ok
    /\ 0 < lastCall.value
    /\ lastCall.value < released
    /\ AllWithBeneficiary

\* ------------------------------------------------------------------ C14
IsReentrant(call) == call.op \in {ReleaseOp(1), EnteredOp(1)}

\* C14: a release() made from inside the token's transfer, when the outer
\* release() has advanced released and the balance is not yet reduced, fails
\* and transfers nothing; whatever the nesting, an outer release() moves
\* exactly the amount that was releasable when it was entered, or, when its
\* transfer fails, nothing.
C14_ReentrantReleaseFails ==
    [][/\ IsReentrant(lastCall') =>
              /\ ~lastCall'.ok
              /\ lastCall'.error = ErrReentrant
              /\ UNCHANGED <<released, balances, callVars>>
       /\ Len(frames') <= 1
       /\ (frames = << >> /\ frames' # << >>) =>
              /\ frames'[1].amount = releasable_amount
              /\ released' = released + releasable_amount
              /\ UNCHANGED balances
       /\ (frames # << >> /\ frames' = << >>) =>
              IF lastCall'.ok
              THEN /\ balances'[beneficiary] =
                         frames[1].balances[beneficiary] + frames[1].amount
                   /\ balances'[This] = frames[1].balances[This] - frames[1].amount
                   /\ released' = frames[1].released + frames[1].amount
                   /\ _status' = NOT_ENTERED
              ELSE /\ balances' = frames[1].balances
                   /\ released' = frames[1].released]_vars

\* The token has called release() during a transfer that leaves tokens in
\* the contract, and the call was turned away.
C14_Witness ==
    /\ frames # << >>
    /\ lastCall.op = ReleaseOp(1)
    /\ lastCall.error = ErrReentrant
    /\ released = frames[1].released + frames[1].amount
    /\ balances[This] > frames[1].amount

====
